---- MODULE Spec2Model ----
(***************************************************************************)
(* A model of dna_array: the 2-bit packer and unpacker                     *)
(* (save_large_array_to_file / read_large_array_from_file), the symbol     *)
(* codec base_to_code, and the FASTQ batch driver (process_fastq, main).   *)
(*                                                                         *)
(* Three specifications share the module:                                  *)
(*   SpecCodec   the round trip of dna_array_example.c's main, one loop    *)
(*               iteration of the packer / unpacker per step;              *)
(*   SpecSymbol  base_to_code applied to every character of a line buffer; *)
(*   Spec        the driver: main's two modes, process_fastq record by     *)
(*               record, the file system of artifacts and manifests.       *)
(***************************************************************************)
EXTENDS Integers, Sequences, FiniteSets, TLC

VARIABLES
    \* ---- dna_array_example.c: main, save_..., read_... ----
    xpc,            \* position of the round-trip program
    arr,            \* main's arr[0..size-1] (uint8_t)
    idx,            \* the loop variable i of the running function
    buffer,         \* uint8_t buffer of the running function
    bit_position,   \* int bit_position of the running function
    file,           \* output_large.bin: NoFile or its bytes
    recovered_arr,  \* the elements read_... has stored so far
    mismatch,       \* main's mismatch flag
    \* ---- base_to_code over a line buffer ----
    sseq,           \* the characters of the buffer (a NUL follows them)
    spos,           \* characters already encoded
    base,           \* the character last given to base_to_code
    code,           \* what base_to_code returned for it, -1 before the first call
    \* ---- dna_array_fastq: main, process_fastq ----
    pc,             \* position of the driver
    args,           \* the parsed command line
    fs,             \* artifact name -> NoFile or the bytes of the file
    packed,         \* artifact name -> the size argument of the call that wrote it
    logs,           \* the log files that exist
    manifest,       \* the lines written to the log file by this run
    next_src,       \* lines of the -i file (source paths) fgets has read
    input_file,     \* process_fastq's input_file argument
    output_file,    \* process_fastq's output_file argument
    opened,         \* gzopen has opened input_file in the current call
    encoded_reads,  \* encoded_reads[0..total_bases-1]
    total_reads,    \* process_fastq's total_reads
    recs_read,      \* records gzgets has delivered from the current source
    fatal_seq,      \* the sequence line printed by the exit of line 117, or NoLine
    ret             \* what process_fastq returned, -1 while it has not

xvars == <<xpc, arr, idx, buffer, bit_position, file, recovered_arr, mismatch>>
svars == <<sseq, spos, base, code>>
dvars == <<pc, args, fs, packed, logs, manifest, next_src, input_file, output_file,
           opened, encoded_reads, total_reads, recs_read, fatal_seq, ret>>
vars == <<xvars, svars, dvars>>

(***************************************************************************)
(* Bounds of the model.                                                    *)
(***************************************************************************)
MaxLen == 5        \* longest array of the round trip
MaxLine == 2       \* longest line buffer given to base_to_code
MaxRecords == 2    \* records read from one source
MaxSources == 2    \* lines of the -i list
MaxReads == 2      \* largest -n

\* fopen(name, "rb") and access(name, F_OK) fail on a file whose content is NoFile
NoFile == <<-1>>

(***************************************************************************)
(* C's integer operators on uint8_t / int operands.                        *)
(***************************************************************************)
RECURSIVE Pow2(_)
Pow2(n) == IF n = 0 THEN 1 ELSE 2 * Pow2(n - 1)

ShiftL(x, n) == x * Pow2(n)
ShiftR(x, n) == x \div Pow2(n)

RECURSIVE BitAnd(_, _)
BitAnd(a, b) ==
    IF a = 0 \/ b = 0 THEN 0
    ELSE (IF a % 2 = 1 /\ b % 2 = 1 THEN 1 ELSE 0) + 2 * BitAnd(a \div 2, b \div 2)

RECURSIVE BitOr(_, _)
BitOr(a, b) ==
    IF a = 0 THEN b
    ELSE IF b = 0 THEN a
    ELSE (IF a % 2 = 1 \/ b % 2 = 1 THEN 1 ELSE 0) + 2 * BitOr(a \div 2, b \div 2)

ToUint8(x) == x % 256

(***************************************************************************)
(* save_large_array_to_file: the loop body and the final flush.            *)
(***************************************************************************)
PackShiftMutant(bp) == bp

\* the shift count of line 16: 6 - bit_position
PackShift(bp) == 6 - bp

PackOrMutant(buf, elem, bp) == ToUint8(ShiftL(BitAnd(elem, 3), PackShift(bp)))

\* line 16: buffer |= (arr[i] & 0x03) << (6 - bit_position)
PackOr(buf, elem, bp) == ToUint8(BitOr(buf, ShiftL(BitAnd(elem, 3), PackShift(bp))))

\* line 20: if (bit_position == 8)
BufferFull(bp) == bp = 8

FlushNeededMutant(bp) == bp >= 0

\* line 28: if (bit_position > 0)
FlushNeeded(bp) == bp > 0

\* One iteration of the loop of lines 14-25 on the state
\* [buffer, bit_position, out], out being the bytes fwrite has written.
PackStep(st, elem) ==
    LET b1 == PackOr(st.buffer, elem, st.bit_position)
        p1 == st.bit_position + 2
    IN  IF BufferFull(p1)
        THEN [buffer |-> 0, bit_position |-> 0, out |-> Append(st.out, b1)]
        ELSE [buffer |-> b1, bit_position |-> p1, out |-> st.out]

\* lines 28-30: the last fwrite
PackFlush(st) ==
    IF FlushNeeded(st.bit_position) THEN Append(st.out, st.buffer) ELSE st.out

PackInit == [buffer |-> 0, bit_position |-> 0, out |-> <<>>]

RECURSIVE PackLoop(_, _, _, _)
\* The state st after the iterations i = lo, lo + 1, ..., hi of the loop, in
\* this order.  The range is halved to keep the evaluation shallow, and the
\* state after the first half is bound as a value before the second half runs.
PackLoop(st, a, lo, hi) ==
    IF lo > hi THEN st
    ELSE IF lo = hi THEN PackStep(st, a[lo])
    ELSE LET mid == (lo + hi) \div 2
         IN  CHOOSE r \in {PackLoop(half, a, mid + 1, hi) :
                              half \in {PackLoop(st, a, lo, mid)}} : TRUE

\* The bytes save_large_array_to_file writes for arr[0..size-1].
PackedBytes(a) == PackFlush(PackLoop(PackInit, a, 1, Len(a)))

(***************************************************************************)
(* read_large_array_from_file: the loop body.                              *)
(***************************************************************************)
UnpackShiftMutant(bp) == IF bp = 0 THEN 6 ELSE 8 - bp

\* the shift count of line 52: 6 - bit_position
UnpackShift(bp) == 6 - bp

\* line 52: (buffer >> (6 - bit_position)) & 0x03
Extract(buf, bp) == BitAnd(ShiftR(buf, UnpackShift(bp)), 3)

\* lines 47-49: fread stores the next byte, or leaves buffer alone at end of file
FreadByte(bytes, nread, buf) ==
    IF nread < Len(bytes) THEN bytes[nread + 1] ELSE buf

(***************************************************************************)
(* dna_array_example.c: main saves arr, reads it back with the same size   *)
(* and compares.  One step per fopen, per loop iteration and per fclose.   *)
(***************************************************************************)
Elems == {0, 1, 2, 3, 255}

RECURSIVE SeqsUpTo(_, _)
SeqsUpTo(S, n) ==
    IF n = 0 THEN {<<>>}
    ELSE LET shorter == SeqsUpTo(S, n - 1)
         IN  shorter \cup {Append(s, e) : s \in {t \in shorter : Len(t) = n - 1}, e \in S}

XInit ==
    /\ xpc = "save_open"
    /\ arr \in SeqsUpTo(Elems, MaxLen)
    /\ idx = 0
    /\ buffer = 0
    /\ bit_position = 0
    /\ file = NoFile
    /\ recovered_arr = <<>>
    /\ mismatch = FALSE

XIdle ==
    /\ xpc = "idle"
    /\ arr = <<>>
    /\ idx = 0
    /\ buffer = 0
    /\ bit_position = 0
    /\ file = NoFile
    /\ recovered_arr = <<>>
    /\ mismatch = FALSE

\* save_large_array_to_file, lines 5-13: fopen(filename, "wb") and the locals
SaveOpen ==
    /\ xpc = "save_open"
    /\ \E ok \in BOOLEAN :
          IF ok
          THEN /\ file' = <<>>
               /\ xpc' = "save_loop"
          ELSE /\ file' = file
               /\ xpc' = "read_open"
    /\ idx' = 0
    /\ buffer' = 0
    /\ bit_position' = 0
    /\ UNCHANGED <<arr, recovered_arr, mismatch>>
    /\ UNCHANGED <<svars, dvars>>

\* lines 15-26: one iteration of the packing loop
SaveStep ==
    /\ xpc = "save_loop"
    /\ idx < Len(arr)
    /\ LET st == PackStep([buffer |-> buffer, bit_position |-> bit_position,
                           out |-> file], arr[idx + 1])
       IN  /\ buffer' = st.buffer
           /\ bit_position' = st.bit_position
           /\ file' = st.out
    /\ idx' = idx + 1
    /\ UNCHANGED <<xpc, arr, recovered_arr, mismatch>>
    /\ UNCHANGED <<svars, dvars>>

\* lines 28-33: the loop is over; the last fwrite and fclose
SaveClose ==
    /\ xpc = "save_loop"
    /\ idx = Len(arr)
    /\ file' = PackFlush([buffer |-> buffer, bit_position |-> bit_position,
                          out |-> file])
    /\ xpc' = "read_open"
    /\ UNCHANGED <<arr, idx, buffer, bit_position, recovered_arr, mismatch>>
    /\ UNCHANGED <<svars, dvars>>

\* read_large_array_from_file, lines 37-44: fopen(filename, "rb") and the locals
ReadOpen ==
    /\ xpc = "read_open"
    /\ xpc' = IF file = NoFile THEN "compare" ELSE "read_loop"
    /\ idx' = 0
    /\ buffer' = 0
    /\ bit_position' = 0
    /\ UNCHANGED <<arr, file, recovered_arr, mismatch>>
    /\ UNCHANGED <<svars, dvars>>

\* lines 46-60: one iteration of the unpacking loop
ReadStep ==
    /\ xpc = "read_loop"
    /\ idx < Len(arr)
    /\ LET b1 == IF bit_position = 0
                 THEN FreadByte(file, idx \div 4, buffer)
                 ELSE buffer
           p1 == bit_position + 2
       IN  /\ buffer' = b1
           /\ recovered_arr' = Append(recovered_arr, Extract(b1, bit_position))
           /\ bit_position' = IF p1 = 8 THEN 0 ELSE p1
    /\ idx' = idx + 1
    /\ UNCHANGED <<xpc, arr, file, mismatch>>
    /\ UNCHANGED <<svars, dvars>>

\* line 62: the loop is over; fclose
ReadClose ==
    /\ xpc = "read_loop"
    /\ idx = Len(arr)
    /\ xpc' = "compare"
    /\ UNCHANGED <<arr, idx, buffer, bit_position, file, recovered_arr, mismatch>>
    /\ UNCHANGED <<svars, dvars>>

\* main, lines 87-94.  When read_... could not open the file, recovered_arr
\* is malloc'ed memory nothing has written: the comparison reads
\* indeterminate bytes and either outcome is possible.
Compare ==
    /\ xpc = "compare"
    /\ IF Len(recovered_arr) = Len(arr)
       THEN mismatch' = (\E i \in 1..Len(arr) : arr[i] # recovered_arr[i])
       ELSE mismatch' \in BOOLEAN
    /\ xpc' = "done"
    /\ UNCHANGED <<arr, idx, buffer, bit_position, file, recovered_arr>>
    /\ UNCHANGED <<svars, dvars>>


(***************************************************************************)
(* base_to_code, and the loop of process_fastq that applies it to the      *)
(* characters of the NUL-terminated line buffer seq.                       *)
(***************************************************************************)
NUL == "NUL"
Chars == {"A", "C", "G", "T", "N", "a", "c", "g", "t", "-", " "}

base_to_codeMutant(b) ==
    CASE b = "A" -> 0
      [] b = "C" -> 1
      [] b = "G" -> 2
      [] b = "T" -> 3
      [] b = "a" -> 0
      [] OTHER -> 255

\* lines 12-20
base_to_code(b) ==
    CASE b = "A" -> 0
      [] b = "C" -> 1
      [] b = "G" -> 2
      [] b = "T" -> 3
      [] OTHER -> 255

\* seq[i] for the C index i: a character of the line, or the terminator
\* that line 105 stores behind it
CharAt(s, i) == IF i < Len(s) THEN s[i + 1] ELSE NUL

SInit ==
    /\ sseq \in SeqsUpTo(Chars, MaxLine)
    /\ spos = 0
    /\ base = "none"
    /\ code = -1

SIdle ==
    /\ sseq = <<>>
    /\ spos = 0
    /\ base = "none"
    /\ code = -1

\* lines 114-120 with kmer_length > strlen(seq): base_to_code(seq[i]) for
\* i = 0, 1, ... until it returns 255, which it does at the terminator at
\* the latest
EncodeChar ==
    /\ spos <= Len(sseq)
    /\ code # 255
    /\ base' = CharAt(sseq, spos)
    /\ code' = base_to_code(CharAt(sseq, spos))
    /\ spos' = spos + 1
    /\ UNCHANGED sseq
    /\ UNCHANGED <<xvars, dvars>>

(***************************************************************************)
(* dna_array_fastq: the inputs of the driver.                              *)
(***************************************************************************)
\* line 109: the length the filter compares with (not kmer_length)
MinSeqLen == 32

\* A source is a sequence of whole four-line records, of which only the
\* sequence line is used; its records and its end are chosen as gzgets
\* delivers them, and so are the lines of the -i file.
\* A sequence line of a record: ACGTACGT... of length len, with the
\* character ch at position pos (1-based; pos = 0: nowhere).
Cycle == <<"A", "C", "G", "T">>
Line(len, pos, ch) ==
    [i \in 1..len |-> IF i = pos THEN ch ELSE Cycle[((i - 1) % 4) + 1]]

LineLens == {0, MinSeqLen - 1, MinSeqLen, MinSeqLen + 1}
Lines ==
    {Line(len, pos, ch) :
        len \in LineLens,
        pos \in {0, 1, MinSeqLen, MinSeqLen + 1},
        ch \in {"N", "a"}}

KmerLengths == {MinSeqLen - 1, MinSeqLen, MinSeqLen + 1}

\* File names are sequences of characters, a directory name or a file
\* name standing for one character.
Paths == {<<"a">>, <<"d", "/", "a">>, <<"d", "\\", "b">>}
\* a null char pointer, as a file name and as a log file name
NULL == <<>>
NoLog == "NULL"
LogFile == "l"
NoLine == <<"none">>

RECURSIVE strrchr(_, _, _)
\* the index of the last c in s[1..n], 0 for a null result
strrchr(s, c, n) ==
    IF n = 0 THEN 0 ELSE IF s[n] = c THEN n ELSE strrchr(s, c, n - 1)

\* lines 159-165
get_basename(file_path) ==
    LET slash == strrchr(file_path, "/", Len(file_path))
        b == IF slash # 0 THEN slash ELSE strrchr(file_path, "\\", Len(file_path))
    IN  IF b # 0 THEN SubSeq(file_path, b + 1, Len(file_path)) ELSE file_path

\* line 215: sprintf(out, "%s%s", get_basename(buffer), ".bin")
OutName(path) == get_basename(path) \o <<".bin">>

Artifacts == {OutName(p) : p \in Paths}

\* The command lines of lines 179-192: -q with -o, or -i with or without -l.
ArgSet ==
    [fastq_file : {<<"a">>}, output_file : Artifacts, log_file : {NoLog},
     num_reads : 0..MaxReads, kmer_length : KmerLengths]
    \cup
    [fastq_file : {NULL}, output_file : {NULL}, log_file : {NoLog, LogFile},
     num_reads : 0..MaxReads, kmer_length : KmerLengths]

\* An artifact left by an earlier run, as the codes that run packed into it.
PreCodes == {NoFile, <<0, 1, 2>>}

Header == "file_path,total_base"

DInit ==
    /\ pc = "main"
    /\ args \in ArgSet
    /\ \E pre \in [Artifacts -> PreCodes] :
          /\ fs = [a \in Artifacts |->
                      IF pre[a] = NoFile THEN NoFile ELSE PackedBytes(pre[a])]
          /\ packed = [a \in Artifacts |->
                      IF pre[a] = NoFile THEN 0 ELSE Len(pre[a])]
    /\ logs \in {{}, {LogFile}}
    /\ manifest = <<>>
    /\ next_src = 0
    /\ input_file = NULL
    /\ output_file = NULL
    /\ opened = FALSE
    /\ encoded_reads = <<>>
    /\ total_reads = 0
    /\ recs_read = 0
    /\ fatal_seq = NoLine
    /\ ret = -1

DIdle ==
    /\ pc = "idle"
    /\ args = [fastq_file |-> NULL, output_file |-> NULL, log_file |-> NoLog,
               num_reads |-> 0, kmer_length |-> 0]
    /\ fs = [a \in Artifacts |-> NoFile]
    /\ packed = [a \in Artifacts |-> 0]
    /\ logs = {}
    /\ manifest = <<>>
    /\ next_src = 0
    /\ input_file = NULL
    /\ output_file = NULL
    /\ opened = FALSE
    /\ encoded_reads = <<>>
    /\ total_reads = 0
    /\ recs_read = 0
    /\ fatal_seq = NoLine
    /\ ret = -1

(***************************************************************************)
(* process_fastq.                                                          *)
(***************************************************************************)
ExistsMutant(name) == FALSE

\* line 84: access(output_file, F_OK) == 0
Exists(name) == fs[name] # NoFile

\* line 109: len < 32 || strchr(seq, 'N'); kmer_length plays no part
Filtered(s, k) == Len(s) < MinSeqLen \/ \E i \in 1..Len(s) : s[i] = "N"

ValidPrefixMutant(s, k) == k

\* lines 114-120: the number of iterations that reach the store of line 120:
\* the loop leaves at the first i < k for which base_to_code returns 255
ValidPrefix(s, k) ==
    LET bad == {i \in 0..(k - 1) : base_to_code(CharAt(s, i)) = 255}
    IN  IF bad = {} THEN k ELSE CHOOSE i \in bad : \A j \in bad : i <= j

\* the codes these iterations store
Codes(s, n) == [i \in 1..n |-> base_to_code(CharAt(s, i - 1))]

\* line 95: the bytes malloc'ed for encoded_reads
Capacity == args.kmer_length * args.num_reads

ReturnValueMutant(bases, reads) == reads

\* line 143: return total_bases
ReturnValue(bases, reads) == bases

\* line 86: return 0
SkipReturn == 0

\* line 133: if (total_reads == num_reads)
BreakNow(reads, n) == reads = n

\* lines 84-87: the output file exists
PFExists ==
    /\ pc = "pf_enter"
    /\ Exists(output_file)
    /\ ret' = SkipReturn
    /\ pc' = "pf_return"
    /\ UNCHANGED <<args, fs, packed, logs, manifest, next_src, input_file,
                   output_file, opened, encoded_reads, total_reads, recs_read,
                   fatal_seq>>
    /\ UNCHANGED <<xvars, svars>>

\* lines 88, 94-97: gzopen succeeds
PFOpen ==
    /\ pc = "pf_enter"
    /\ ~Exists(output_file)
    /\ opened' = TRUE
    /\ encoded_reads' = <<>>
    /\ total_reads' = 0
    /\ recs_read' = 0
    /\ pc' = "pf_read"
    /\ UNCHANGED <<args, fs, packed, logs, manifest, next_src, input_file,
                   output_file, fatal_seq, ret>>
    /\ UNCHANGED <<xvars, svars>>

\* lines 88-92: gzopen fails
PFOpenFail ==
    /\ pc = "pf_enter"
    /\ ~Exists(output_file)
    /\ pc' = "exit_fail"
    /\ UNCHANGED <<args, fs, packed, logs, manifest, next_src, input_file,
                   output_file, opened, encoded_reads, total_reads, recs_read,
                   fatal_seq, ret>>
    /\ UNCHANGED <<xvars, svars>>

\* lines 99-111: a record the filter drops
PFSkipRecord(seq) ==
    /\ pc = "pf_read"
    /\ recs_read < MaxRecords
    /\ Filtered(seq, args.kmer_length)
    /\ recs_read' = recs_read + 1
    /\ UNCHANGED <<pc, args, fs, packed, logs, manifest, next_src, input_file,
                   output_file, opened, encoded_reads, total_reads, fatal_seq, ret>>
    /\ UNCHANGED <<xvars, svars>>

\* The stores of line 120 for this record stay inside encoded_reads.
InBounds(seq) ==
    LET n == ValidPrefix(seq, args.kmer_length)
    IN  n = 0 \/ Len(encoded_reads) + n <= Capacity

\* lines 99-135: a record that is encoded whole
PFAcceptRecord(seq) ==
    /\ pc = "pf_read"
    /\ recs_read < MaxRecords
    /\ ~Filtered(seq, args.kmer_length)
    /\ ValidPrefix(seq, args.kmer_length) = args.kmer_length
    /\ recs_read' = recs_read + 1
    /\ encoded_reads' = encoded_reads \o Codes(seq, args.kmer_length)
    /\ total_reads' = total_reads + 1
    /\ pc' = IF BreakNow(total_reads + 1, args.num_reads) THEN "pf_save" ELSE "pf_read"
    /\ UNCHANGED <<args, fs, packed, logs, manifest, next_src, input_file,
                   output_file, opened, fatal_seq, ret>>
    /\ UNCHANGED <<xvars, svars>>

\* lines 114-119: base_to_code returns 255 for one of the first kmer_length
\* characters (the terminator is one of them when the line is shorter)
PFInvalidBase(seq) ==
    /\ pc = "pf_read"
    /\ recs_read < MaxRecords
    /\ ~Filtered(seq, args.kmer_length)
    /\ ValidPrefix(seq, args.kmer_length) < args.kmer_length
    /\ recs_read' = recs_read + 1
    /\ encoded_reads' = encoded_reads \o Codes(seq, ValidPrefix(seq, args.kmer_length))
    /\ fatal_seq' = seq
    /\ pc' = "exit_fail"
    /\ UNCHANGED <<args, fs, packed, logs, manifest, next_src, input_file,
                   output_file, opened, total_reads, ret>>
    /\ UNCHANGED <<xvars, svars>>

\* line 120 stores behind the end of the malloc'ed block: undefined
\* behaviour.  The store either lands in the heap, and PFAcceptRecord or
\* PFInvalidBase goes on, or the process dies here.
PFOverflowCrash(seq) ==
    /\ pc = "pf_read"
    /\ recs_read < MaxRecords
    /\ ~Filtered(seq, args.kmer_length)
    /\ ~InBounds(seq)
    /\ recs_read' = recs_read + 1
    /\ pc' = "crashed"
    /\ UNCHANGED <<args, fs, packed, logs, manifest, next_src, input_file,
                   output_file, opened, encoded_reads, total_reads, fatal_seq, ret>>
    /\ UNCHANGED <<xvars, svars>>

\* line 99: gzgets returns NULL, the source is exhausted
PFEof ==
    /\ pc = "pf_read"
    /\ pc' = "pf_save"
    /\ UNCHANGED <<args, fs, packed, logs, manifest, next_src, input_file,
                   output_file, opened, encoded_reads, total_reads, recs_read,
                   fatal_seq, ret>>
    /\ UNCHANGED <<xvars, svars>>

\* lines 139-143: save_large_array_to_file writes the file; return total_bases
PFSave ==
    /\ pc = "pf_save"
    /\ fs' = [fs EXCEPT ![output_file] = PackedBytes(encoded_reads)]
    /\ packed' = [packed EXCEPT ![output_file] = Len(encoded_reads)]
    /\ ret' = ReturnValue(Len(encoded_reads), total_reads)
    /\ pc' = "pf_return"
    /\ UNCHANGED <<args, logs, manifest, next_src, input_file, output_file,
                   opened, encoded_reads, total_reads, recs_read, fatal_seq>>
    /\ UNCHANGED <<xvars, svars>>

\* lines 139-143 when the fopen of lines 23-27 fails: nothing is written
PFSaveFail ==
    /\ pc = "pf_save"
    /\ ret' = ReturnValue(Len(encoded_reads), total_reads)
    /\ pc' = "pf_return"
    /\ UNCHANGED <<args, fs, packed, logs, manifest, next_src, input_file,
                   output_file, opened, encoded_reads, total_reads, recs_read,
                   fatal_seq>>
    /\ UNCHANGED <<xvars, svars>>

(***************************************************************************)
(* main.                                                                   *)
(***************************************************************************)
\* no call of process_fastq is running
NoCall ==
    /\ input_file' = NULL
    /\ output_file' = NULL
    /\ opened' = FALSE
    /\ encoded_reads' = <<>>
    /\ total_reads' = 0
    /\ recs_read' = 0
    /\ ret' = -1

\* the locals a call of process_fastq starts with
Call(in, out) ==
    /\ input_file' = in
    /\ output_file' = out
    /\ opened' = FALSE
    /\ encoded_reads' = <<>>
    /\ total_reads' = 0
    /\ recs_read' = 0
    /\ ret' = -1
    /\ pc' = "pf_enter"

\* lines 194-195: -q was given
MainSingle ==
    /\ pc = "main"
    /\ args.fastq_file # NULL
    /\ Call(args.fastq_file, args.output_file)
    /\ UNCHANGED <<args, fs, packed, logs, manifest, next_src, fatal_seq>>
    /\ UNCHANGED <<xvars, svars>>

\* line 195 returns; line 224
MainSingleDone ==
    /\ pc = "pf_return"
    /\ args.fastq_file # NULL
    /\ pc' = "exit_ok"
    /\ UNCHANGED <<args, fs, packed, logs, manifest, next_src, input_file,
                   output_file, opened, encoded_reads, total_reads, recs_read,
                   fatal_seq, ret>>
    /\ UNCHANGED <<xvars, svars>>

\* lines 197-200: no -l
MainNoLog ==
    /\ pc = "main"
    /\ args.fastq_file = NULL
    /\ args.log_file = NoLog
    /\ pc' = "exit_fail"
    /\ UNCHANGED <<args, fs, packed, logs, manifest, next_src, input_file,
                   output_file, opened, encoded_reads, total_reads, recs_read,
                   fatal_seq, ret>>
    /\ UNCHANGED <<xvars, svars>>

\* lines 202-205: the log file exists
MainLogExists ==
    /\ pc = "main"
    /\ args.fastq_file = NULL
    /\ args.log_file # NoLog
    /\ args.log_file \in logs
    /\ pc' = "exit_ok"
    /\ UNCHANGED <<args, fs, packed, logs, manifest, next_src, input_file,
                   output_file, opened, encoded_reads, total_reads, recs_read,
                   fatal_seq, ret>>
    /\ UNCHANGED <<xvars, svars>>

\* lines 207-211: the log file is created and the header written
MainOpenLog ==
    /\ pc = "main"
    /\ args.fastq_file = NULL
    /\ args.log_file # NoLog
    /\ args.log_file \notin logs
    /\ logs' = logs \cup {args.log_file}
    /\ manifest' = <<Header>>
    /\ pc' = "main_loop"
    /\ UNCHANGED <<args, fs, packed, next_src, input_file, output_file, opened,
                   encoded_reads, total_reads, recs_read, fatal_seq, ret>>
    /\ UNCHANGED <<xvars, svars>>

\* lines 212-216: fgets reads the next line of the -i file, the path
\* file_path, and process_fastq is called
MainNextSource(file_path) ==
    /\ pc = "main_loop"
    /\ next_src < MaxSources
    /\ next_src' = next_src + 1
    /\ Call(file_path, OutName(file_path))
    /\ UNCHANGED <<args, fs, packed, logs, manifest, fatal_seq>>
    /\ UNCHANGED <<xvars, svars>>

\* line 217: the row for the artifact out and the returned count.  existed
\* and present are not in the file: they record whether the artifact existed
\* when process_fastq was called and whether it exists now.
Row(out, total_bases) ==
    [file_path |-> out, total_base |-> total_bases,
     existed |-> ~opened, present |-> Exists(out)]

\* lines 216-218: process_fastq returned; the row is written and flushed.
\* The locals of the call are gone.
MainRow ==
    /\ pc = "pf_return"
    /\ args.fastq_file = NULL
    /\ manifest' = Append(manifest, Row(output_file, ret))
    /\ NoCall
    /\ pc' = "main_loop"
    /\ UNCHANGED <<args, fs, packed, logs, next_src, fatal_seq>>
    /\ UNCHANGED <<xvars, svars>>

\* lines 212, 220-224: fgets returns NULL, the -i file has no more lines
MainEndOfList ==
    /\ pc = "main_loop"
    /\ pc' = "exit_ok"
    /\ UNCHANGED <<args, fs, packed, logs, manifest, next_src, input_file,
                   output_file, opened, encoded_reads, total_reads, recs_read,
                   fatal_seq, ret>>
    /\ UNCHANGED <<xvars, svars>>

Next ==
    \/ PFExists
    \/ PFOpen
    \/ PFOpenFail
    \/ \E seq \in Lines : PFSkipRecord(seq)
    \/ \E seq \in Lines : PFAcceptRecord(seq)
    \/ \E seq \in Lines : PFInvalidBase(seq)
    \/ \E seq \in Lines : PFOverflowCrash(seq)
    \/ PFEof
    \/ PFSave
    \/ PFSaveFail
    \/ MainSingle
    \/ MainSingleDone
    \/ MainNoLog
    \/ MainLogExists
    \/ MainOpenLog
    \/ \E file_path \in Paths : MainNextSource(file_path)
    \/ MainRow
    \/ MainEndOfList

(***************************************************************************)
(* The specifications.                                                     *)
(***************************************************************************)
InitCodec == XInit /\ SIdle /\ DIdle
NextCodec ==
    \/ SaveOpen
    \/ SaveStep
    \/ SaveClose
    \/ ReadOpen
    \/ ReadStep
    \/ ReadClose
    \/ Compare
SpecCodec == InitCodec /\ [][NextCodec]_vars

InitSymbol == XIdle /\ SInit /\ DIdle
NextSymbol == EncodeChar
SpecSymbol == InitSymbol /\ [][NextSymbol]_vars

Init == XIdle /\ SIdle /\ DInit
Spec == Init /\ [][Next]_vars

(***************************************************************************)
(* The claims.                                                             *)
(***************************************************************************)
InRange(a) == \A i \in 1..Len(a) : a[i] \in 0..3
CeilDiv4(n) == (n + 3) \div 4
Minimum(a, b) == IF a <= b THEN a ELSE b
Saved == xpc \in {"read_open", "read_loop", "compare", "done"} /\ file # NoFile
Bases == {"A", "C", "G", "T"}

\* C1: round trip.  For every array of codes in [0,3], of any length, that
\* save_large_array_to_file wrote, read_large_array_from_file with the same
\* count recovers the array element by element: every element read so far
\* equals the element of arr at its index, and once the reader is done the
\* recovered array is arr and main finds no mismatch.
C1_RoundTrip ==
    (Saved /\ InRange(arr)) =>
        /\ Len(recovered_arr) <= Len(arr)
        /\ \A i \in 1..Len(recovered_arr) : recovered_arr[i] = arr[i]
        /\ xpc \in {"compare", "done"} => recovered_arr = arr
        /\ xpc = "done" => ~mismatch

\* a round trip of five codes (one full byte and a partial one) is done
C1_Witness ==
    /\ xpc = "done"
    /\ file # NoFile
    /\ arr = <<3, 0, 2, 1, 2>>
    /\ recovered_arr = arr
    /\ ~mismatch

\* the code of arr at the C index i, 0 behind the end of the array
CodeAt(a, i) == IF i < Len(a) THEN a[i + 1] ELSE 0

\* C2: byte layout.  For every array of codes in [0,3], byte j of the file
\* is (c[4j]<<6)|(c[4j+1]<<4)|(c[4j+2]<<2)|c[4j+3], the codes behind the end
\* of the array counting as 0: in the last byte of a length that is no
\* multiple of 4 the remaining codes are left-aligned and the unused low bit
\* pairs are zero.  Every code has a byte.
C2_ByteLayout ==
    (Saved /\ InRange(arr)) =>
        /\ 4 * Len(file) >= Len(arr)
        /\ \A j \in 0..(Len(file) - 1) :
              file[j + 1] = 64 * CodeAt(arr, 4 * j) + 16 * CodeAt(arr, 4 * j + 1)
                            + 4 * CodeAt(arr, 4 * j + 2) + CodeAt(arr, 4 * j + 3)

\* five codes are packed: 0xE7 and the partial byte 0x40
C2_Witness ==
    /\ xpc = "read_open"
    /\ arr = <<3, 2, 1, 3, 1>>
    /\ file = <<231, 64>>

\* C3: density and flush.  While the packer runs the bit position is one of
\* 0, 2, 4, 6, namely twice the number of codes in the pending byte, and one
\* byte has been written for every four codes consumed.  When it is done the
\* last byte was written if and only if the bit position was > 0, and the
\* file has ceil(n/4) bytes, none for n = 0.
C3_Density ==
    /\ xpc = "save_loop" =>
          /\ bit_position \in {0, 2, 4, 6}
          /\ bit_position = 2 * (idx % 4)
          /\ Len(file) = idx \div 4
    /\ (xpc = "read_open" /\ file # NoFile) =>
          /\ Len(file) = (Len(arr) \div 4) + (IF bit_position > 0 THEN 1 ELSE 0)
          /\ Len(file) = CeilDiv4(Len(arr))
          /\ Len(arr) = 0 => file = <<>>

\* five codes were packed into two bytes, the second by the flush
C3_Witness ==
    /\ xpc = "read_open"
    /\ Len(arr) = 5
    /\ bit_position = 2
    /\ Len(file) = 2

\* the artifact the running call of process_fastq has written
WroteArtifact == pc = "pf_return" /\ opened /\ fs[output_file] # NoFile

\* the call has encoded at least one record, which begins with ACGT
PackedACGT ==
    WroteArtifact /\ total_reads >= 1 /\ SubSeq(encoded_reads, 1, 4) = <<0, 1, 2, 3>>

\* C4 as stated: the four codes [0,1,2,3] are packed to the byte 0x17 = 23,
\* and the record ACGT x 8 with K = 32 to eight bytes 0x17.
C4_AsStated ==
    /\ PackedACGT => fs[output_file][1] = 23
    /\ (PackedACGT /\ args.kmer_length = 32 /\ total_reads = 1) =>
          fs[output_file] = [j \in 1..8 |-> 23]

\* C4, amended: the four codes [0,1,2,3] are packed to the single byte
\* 0b00011011 = 0x1B = 27, and with K = 32 one accepted record, whose first 32
\* characters are ACGT x 8, is encoded to [0,1,2,3] x 8 and packed to eight
\* bytes 0x1B.
C4_PackACGT ==
    /\ PackedBytes(<<0, 1, 2, 3>>) = <<27>>
    /\ PackedACGT => fs[output_file][1] = 27
    /\ (WroteArtifact /\ args.kmer_length = 32 /\ total_reads = 1) =>
          /\ encoded_reads = [i \in 1..32 |-> (i - 1) % 4]
          /\ fs[output_file] = [j \in 1..8 |-> 27]

\* process_fastq has packed one record of 32 symbols into 8 bytes
C4_Witness ==
    /\ WroteArtifact
    /\ args.kmer_length = 32
    /\ args.num_reads = 1
    /\ total_reads = 1
    /\ ret = 32
    /\ Len(fs[output_file]) = 8

\* C5: the symbol codec.  base_to_code returned 0 for A, 1 for C, 2 for G,
\* 3 for T and 255 for every other character of the buffer and for its
\* terminator; 255 is no code; on {A,C,G,T} the mapping is one-to-one and
\* onto 0..3.
C5_SymbolCodec ==
    /\ code # -1 =>
          /\ base = "A" => code = 0
          /\ base = "C" => code = 1
          /\ base = "G" => code = 2
          /\ base = "T" => code = 3
          /\ base \notin Bases => code = 255
    /\ 255 \notin 0..3
    /\ \A b \in Chars \cup {NUL} : b \notin Bases => base_to_code(b) = 255
    /\ \A v \in 0..3 : \E b \in Bases :
          /\ base_to_code(b) = v
          /\ \A c \in Bases : base_to_code(c) = v => c = b

\* T was encoded to 3 and then the lowercase a to 255
C5_Witness ==
    /\ sseq = <<"T", "a">>
    /\ spos = 2
    /\ base = "a"
    /\ code = 255

\* C6 as stated: when the output did not exist, process_fastq returns
\* K * min(N, accepted records), and the index total_bases never exceeds the
\* K * N bytes of encoded_reads.
C6_OutputLength ==
    /\ Len(encoded_reads) <= Capacity
    /\ (pc = "pf_return" /\ opened) =>
          ret = args.kmer_length * Minimum(args.num_reads, total_reads)

\* C7 as stated, for a record of symbols A,C,G,T only and a maximum record
\* count N >= 1: when its line is shorter than K the record is skipped, so it
\* is never the record that ends the process.
C7_PreFilterSkip ==
    (fatal_seq # NoLine /\ args.num_reads >= 1
        /\ \A i \in 1..Len(fatal_seq) : fatal_seq[i] \in Bases) =>
            Len(fatal_seq) >= args.kmer_length

\* C8: the existing output.  A call of process_fastq that finds its output
\* file returns 0 at once: the source is not opened and no file changes.  A
\* second call with the output path of an earlier call that left the
\* artifact behind is such a call: its row reports 0.
C8_ExistingOutput ==
    /\ [][(pc = "pf_enter" /\ fs[output_file] # NoFile) =>
              /\ pc' = "pf_return"
              /\ ret' = 0
              /\ opened' = FALSE
              /\ fs' = fs
              /\ packed' = packed]_vars
    /\ [](\A i, j \in 2..Len(manifest) :
              (i < j /\ manifest[i].file_path = manifest[j].file_path
                     /\ manifest[i].present) =>
                  (manifest[j].existed /\ manifest[j].total_base = 0))
    /\ []((pc = "pf_return" /\ ~opened) => (ret = 0 /\ fs[output_file] # NoFile))

\* the second source of the list has the basename of the first, whose call
\* packed codes: the second call has returned 0 and the artifact is as it was
C8_Witness ==
    /\ pc = "pf_return"
    /\ ~opened
    /\ ret = 0
    /\ Len(manifest) = 2
    /\ manifest[2].file_path = output_file
    /\ ~manifest[2].existed
    /\ manifest[2].total_base > 0
    /\ packed[output_file] = manifest[2].total_base

\* the rows of the manifest
Rows == {manifest[i] : i \in 2..Len(manifest)}
ListDone == pc = "exit_ok" /\ args.fastq_file = NULL /\ manifest # <<>>

\* C9 as stated: the manifest has the header and one row per listed source,
\* and each row's integer is the number of codes packed in the artifact the
\* row names.
C9_AsStated ==
    /\ ListDone => Len(manifest) = 1 + next_src
    /\ \A r \in Rows : r.total_base = packed[r.file_path]

\* C9, amended: the manifest has the header and one row per source whose call
\* of process_fastq has returned, so one per listed source when the list is
\* done.  A row's integer is 0 when the artifact existed at the call, whatever
\* the artifact holds; otherwise it is the number of codes the call encoded,
\* which is the number packed into the artifact the call wrote, and nothing
\* changes that artifact later in the run.
C9_Manifest ==
    /\ manifest # <<>> =>
          /\ manifest[1] = Header
          /\ Len(manifest) = 1 + (IF pc = "main_loop" \/ ListDone
                                  THEN next_src ELSE next_src - 1)
    /\ \A r \in Rows :
          /\ r.existed => r.total_base = 0
          /\ (~r.existed /\ r.present) =>
                /\ r.total_base = packed[r.file_path]
                /\ Len(fs[r.file_path]) = CeilDiv4(r.total_base)

\* the list of two sources with one basename is done: the first row has the
\* codes of the artifact, the second has 0
C9_Witness ==
    /\ ListDone
    /\ Len(manifest) = 3
    /\ manifest[2].file_path = manifest[3].file_path
    /\ manifest[2].total_base > 0
    /\ manifest[2].total_base = packed[manifest[2].file_path]
    /\ manifest[3].existed
    /\ manifest[3].total_base = 0

\* C10: an invalid symbol is fatal and leaves no artifact.  When base_to_code
\* returned 255 for one of the first K characters of a record the filter let
\* through, the process has exited and the output file of the call does not
\* exist; and no record is counted or kept with such a character: as long as
\* that has not happened, encoded_reads holds exactly K codes in 0..3 for
\* each accepted record.
C10_InvalidFatal ==
    /\ fatal_seq # NoLine =>
          /\ pc = "exit_fail"
          /\ fs[output_file] = NoFile
          /\ \E i \in 0..(args.kmer_length - 1) : CharAt(fatal_seq, i) \notin Bases
    /\ fatal_seq = NoLine =>
          /\ InRange(encoded_reads)
          /\ Len(encoded_reads) = args.kmer_length * total_reads

\* the second record of the second source has a lowercase a among its first
\* K characters: the process exited and the artifact of that source is absent
C10_Witness ==
    /\ pc = "exit_fail"
    /\ fatal_seq = Line(MinSeqLen, 1, "a")
    /\ recs_read = 2
    /\ total_reads = 1
    /\ Len(manifest) = 2
    /\ fs[output_file] = NoFile

====
